---- MODULE Spec2Model ----
(***************************************************************************)
(* Model of the rotation sensor driver (rotation-sensor.c): the shared     *)
(* counter g_rotation_sensor.value, the edge handler gpio_a_handler and    *)
(* the two file operations rotation_sensor_read and rotation_sensor_write. *)
(*                                                                         *)
(* The specifications share the definitions that model the C statements:  *)
(*   Spec      one operation at a time, every call run from entry to       *)
(*             return (the functional behaviour of the three operations);  *)
(*   SpecTorn  the calls of Spec as one caller makes them, reading the     *)
(*             text in chunks while the counter changes;                   *)
(*   SpecSMP   the same code statement by statement, the handler in        *)
(*             interrupt context and the two file operations on their own  *)
(*             processors, interleaved (the locking discipline), and       *)
(*             SpecSMPFair, the same with processors that go on executing; *)
(*   SpecLife  rotation_sensor_init and rotation_sensor_exit.              *)
(*                                                                         *)
(* Text is a sequence of one-character strings: <<"0", ".", "7", "\n">>.   *)
(***************************************************************************)
EXTENDS Integers, Sequences, FiniteSets, TLC

(***************************************************************************)
(* Program constants.                                                      *)
(***************************************************************************)
DEFAULT_COUNT_MAX == 5000
KBUFFER_SIZE == 64
ENOMEM == 12
EFAULT == 14
EINVAL == 22

(***************************************************************************)
(* Bounds of the model.                                                    *)
(***************************************************************************)
\* read capacities are 0..MaxLength and the whole buffer, KBUFFER_SIZE
MaxLength == 1
\* the low part of a read offset ranges over 0..MaxOffset
MaxOffset == 4
\* the levels of channel B are summed while the sum stays within this bound
MaxNet == 8
\* the values of the counter followed through one sequence of reads
MaxHeld == 2

\* the values of the module parameter count_max the model starts from:
\* 2 divides 3600, 7 is the least modulus that does not
CountMaxValues == {2, 7}

(***************************************************************************)
(* C integer arithmetic: / and % truncate toward zero.                     *)
(***************************************************************************)
Abs(x) == IF x < 0 THEN -x ELSE x

CDiv(a, b) ==
    LET q == Abs(a) \div Abs(b)
    IN  IF (a < 0) = (b < 0) THEN q ELSE -q

CMod(a, b) == a - b * CDiv(a, b)

(***************************************************************************)
(* snprintf(kbuffer, 64, "%ld.%ld\n", angle/10, angle%10)                  *)
(***************************************************************************)
DigitChars == <<"0", "1", "2", "3", "4", "5", "6", "7", "8", "9">>

RECURSIVE Digits(_)
Digits(n) ==
    IF n < 10 THEN <<DigitChars[n + 1]>>
    ELSE Append(Digits(n \div 10), DigitChars[(n % 10) + 1])

\* the conversion %ld
FormatLd(x) == IF x < 0 THEN <<"-">> \o Digits(-x) ELSE Digits(x)

\* at most size - 1 characters are stored before the terminating NUL
Truncate(s, size) == IF Len(s) > size - 1 THEN SubSeq(s, 1, size - 1) ELSE s

snprintf(size, whole, tenth) ==
    Truncate(FormatLd(whole) \o <<".">> \o FormatLd(tenth) \o <<"\n">>, size)

AngleOfDividedFirst(v, cm) == CDiv(v, cm) * 3600

\* line 71: angle = (g_rotation_sensor.value * 3600) / count_max
AngleOf(v, cm) == CDiv(v * 3600, cm)

\* a text formatted once, from the counter as rotation_sensor_init leaves it,
\* and kept for every later call
KBufferOfLoadTime(angle) == snprintf(KBUFFER_SIZE, 0, 0)

\* line 73: the text left in kbuffer for an angle
KBufferOf(angle) == snprintf(KBUFFER_SIZE, CDiv(angle, 10), CMod(angle, 10))

(***************************************************************************)
(* rotation_sensor_read, lines 76-88.  A file offset (loff_t, 64 bits) is  *)
(* the record [hi, lo] standing for hi * 2^32 + lo, with lo < 2^31.        *)
(* The statement lg -= *offset stores the difference in an int, and that   *)
(* keeps the low 32 bits: hi drops out of lg.                              *)
(***************************************************************************)
Offsets ==
    [hi : {0}, lo : 0 .. MaxOffset] \cup [hi : {1}, lo : {0, MaxOffset}]

Lengths == (0 .. MaxLength) \cup {KBUFFER_SIZE}

\* (int)(lg - *offset)
IntDifference(lg, off) == lg - off.lo

\* what copy_to_user finds at kbuffer + *offset when that address lies outside
\* kbuffer: the bytes of kbuffer itself where pointers are 32 bits wide (the
\* sum wraps); where they are 64 bits wide, other memory if the address is
\* mapped, and if it is not, a fault that copy_to_user reports (it returns
\* the count not copied) or one that ends the call in an oops
OutOfBuffer == {"wraps", "other", "fault", "oops"}

CopySource(kbuffer, off, lg, oob) ==
    IF off.hi = 0 \/ oob = "wraps"
    THEN SubSeq(kbuffer, off.lo + 1, off.lo + lg)
    ELSE [i \in 1 .. lg |-> "?"]

\* the buffer the caller passes to read: memory the caller can write; memory
\* of the caller mapped read-only, where the store of copy_to_user faults
\* and the fault is reported; or an address outside the caller's range,
\* which copy_to_user refuses before it loads a byte
Buffers == {"writable", "read_only", "refused"}

\* the outcome of lines 76-88: the value returned, the bytes copied to the
\* caller and the caller's offset on return, or no return when the copy
\* ends in an oops.  copy_to_user loads a byte of the source before it
\* stores it, so a fatal fault on the source comes before the fault on a
\* read-only buffer
ReadTail(kbuffer, off, length, buffer, oob) ==
    LET lg0 == Len(kbuffer)
        lg1 == IntDifference(lg0, off)
        lg  == IF lg1 > length THEN length ELSE lg1
        unmapped == lg > 0 /\ off.hi # 0 /\ oob \in {"fault", "oops"}
    IN  IF lg1 <= 0
        THEN [ret |-> 0, bytes |-> <<>>, pos |-> off, returns |-> TRUE]
        ELSE IF lg > 0 /\ buffer = "refused"
        THEN [ret |-> -EFAULT, bytes |-> <<>>, pos |-> off, returns |-> TRUE]
        ELSE IF unmapped /\ oob = "oops"
        THEN [ret |-> -EFAULT, bytes |-> <<>>, pos |-> off, returns |-> FALSE]
        ELSE IF unmapped \/ (lg > 0 /\ buffer = "read_only")
        THEN [ret |-> -EFAULT, bytes |-> <<>>, pos |-> off, returns |-> TRUE]
        ELSE [ret |-> lg,
              bytes |-> CopySource(kbuffer, off, lg, oob),
              pos |-> [hi |-> off.hi, lo |-> off.lo + lg],
              returns |-> TRUE]

(***************************************************************************)
(* sscanf(kbuffer, "%ld", &value), line 105, as the kernel's vsscanf does  *)
(* it: skip white space, accept '-' and then decimal digits.               *)
(***************************************************************************)
\* isspace of the kernel's _ctype table: space, the bytes 9-13 (tab, newline,
\* vertical tab "\\v", form feed, carriage return) and the byte 160 "\\xa0"
IsSpace(c) == c \in {" ", "\t", "\n", "\\v", "\f", "\r", "\\xa0"}

IsDigit(c) == c \in {"0", "1", "2", "3", "4", "5", "6", "7", "8", "9"}

DigitValue(c) == CHOOSE d \in 0 .. 9 : DigitChars[d + 1] = c

RECURSIVE skip_spaces(_)
skip_spaces(s) ==
    IF s # <<>> /\ IsSpace(Head(s)) THEN skip_spaces(Tail(s)) ELSE s

RECURSIVE simple_strtoul(_, _)
simple_strtoul(s, acc) ==
    IF s # <<>> /\ IsDigit(Head(s))
    THEN simple_strtoul(Tail(s), acc * 10 + DigitValue(Head(s)))
    ELSE acc

simple_strtol(s) ==
    IF s # <<>> /\ Head(s) = "-"
    THEN -simple_strtoul(Tail(s), 0)
    ELSE simple_strtoul(s, 0)

\* the number of conversions done (0 or 1) and the value stored
sscanf_ld(mem) ==
    LET str == skip_spaces(mem)
        digit == IF str # <<>> /\ Head(str) = "-" THEN Tail(str) ELSE str
    IN  IF digit = <<>> \/ ~IsDigit(Head(digit))
        THEN [n |-> 0, value |-> 0]
        ELSE [n |-> 1, value |-> simple_strtol(str)]

\* the bytes a caller writes, the write of no byte (length 0) among them
WriteInputs ==
    { <<"1">>, <<"7", "\n">>, <<"-", "2", "\n">>, <<" ", "2", "x">>,
      <<"x">>, <<"-">>, <<"\n">>, <<>> }

\* kbuffer is kmalloc(length) and holds no terminating NUL: sscanf reads on
\* into the bytes that follow it in the heap, up to their first NUL
HeapTails == { <<>>, <<"1">> }

\* what can fail in a call of write: kmalloc (line 98) returns NULL, or
\* copy_from_user (line 101) cannot read the caller's buffer
WriteFaults == {"none", "kmalloc", "copy_from_user"}

\* the calls of write: every input over every heap when nothing fails; one
\* input that holds an integer when kmalloc or copy_from_user fails, since
\* the call returns before it looks at the bytes
WriteCalls ==
    [input : WriteInputs, heap : HeapTails, fault : {"none"}]
        \cup [input : {<<"7", "\n">>}, heap : {<<>>},
              fault : WriteFaults \ {"none"}]

\* the outcome of lines 98-114: the value returned and whether, and to
\* what, g_rotation_sensor.value is assigned, or no return when the call
\* ends in an oops.  For length 0 kmalloc returns ZERO_SIZE_PTR, which is
\* not NULL and not an address of memory, copy_from_user copies nothing and
\* returns 0, and sscanf faults on its first load (line 105)
WriteOutcome(input, heap, fault) ==
    LET sc == sscanf_ld(input \o heap)
    IN  IF fault = "kmalloc"
        THEN [ret |-> -ENOMEM, assign |-> FALSE, value |-> 0, returns |-> TRUE]
        ELSE IF Len(input) = 0
        THEN [ret |-> 0, assign |-> FALSE, value |-> 0, returns |-> FALSE]
        ELSE IF fault = "copy_from_user"
        THEN [ret |-> -EFAULT, assign |-> FALSE, value |-> 0, returns |-> TRUE]
        ELSE IF sc.n # 1
        THEN [ret |-> -EINVAL, assign |-> FALSE, value |-> 0, returns |-> TRUE]
        ELSE [ret |-> Len(input), assign |-> TRUE, value |-> sc.value,
              returns |-> TRUE]

(***************************************************************************)
(* gpio_a_handler, lines 123-130.                                          *)
(***************************************************************************)
\* the counter stepped down where lines 123-126 step it up, and up where
\* they step it down
CountReversed(v, b) == IF b THEN v - 1 ELSE v + 1

\* a step down of three where line 126 steps down by one
CountLowByThree(v, b) == IF b THEN v + 1 ELSE v - 3

\* lines 123-126
Count(v, b) == IF b THEN v + 1 ELSE v - 1

\* an if in the place of the while of line 127
WhileAboveOnce(v, cm) == IF v > cm THEN v - cm ELSE v

\* line 127
RECURSIVE WhileAbove(_, _)
WhileAbove(v, cm) == IF v > cm THEN WhileAbove(v - cm, cm) ELSE v

\* line 129
RECURSIVE WhileBelow(_, _)
WhileBelow(v, cm) == IF v < 0 THEN WhileBelow(v + cm, cm) ELSE v

HandlerResult(v, b, cm) == WhileBelow(WhileAbove(Count(v, b), cm), cm)

\* the values line 128 stores, one per pass of its loop
RECURSIVE StoresAbove(_, _)
StoresAbove(v, cm) ==
    IF v > cm THEN {v - cm} \cup StoresAbove(v - cm, cm) ELSE {}

\* the values line 130 stores, one per pass of its loop
RECURSIVE StoresBelow(_, _)
StoresBelow(v, cm) ==
    IF v < 0 THEN {v + cm} \cup StoresBelow(v + cm, cm) ELSE {}

\* every value the handler stores in the counter, lines 124-130, the last
\* of them HandlerResult
HandlerStores(v, b, cm) ==
    {Count(v, b)} \cup StoresAbove(Count(v, b), cm)
                 \cup StoresBelow(WhileAbove(Count(v, b), cm), cm)

(***************************************************************************)
(* State.                                                                  *)
(***************************************************************************)
VARIABLES
    count_max,   \* the module parameter, fixed when the module is loaded
    value,       \* g_rotation_sensor.value
    spinlock,    \* g_rotation_sensor.spinlock: the context that holds it
    handler,     \* SpecSMP: gpio_a_handler's position and the level it sampled
    reader,      \* SpecSMP: rotation_sensor_read's position and locals
    writer,      \* SpecSMP: rotation_sensor_write's position and locals
    op,          \* Spec: the operation that returned last, its inputs and results
    last_write,  \* Spec: the last write that stored, its bytes and the integer, while no edge followed
    levels,      \* Spec: the sum of the levels seen since loading, while no write
    chunks,      \* Spec: the bytes returned by successive reads started at offset 0
    life,        \* the module's loading and unloading, and the resources it holds
    reads,       \* SpecTorn: successive reads and the values the counter held meanwhile
    stored       \* Spec: the values the handler's last run stored, while no write followed

vars == <<count_max, value, spinlock, handler, reader, writer,
          op, last_write, levels, chunks, life, reads, stored>>

smp_vars == <<spinlock, handler, reader, writer>>

seq_vars == <<op, last_write, levels, chunks, reads, stored>>

NoOffset == [hi |-> 0, lo |-> 0]

NoOp ==
    [kind |-> "none", b |-> FALSE, before |-> 0,
     off |-> NoOffset, length |-> 0, buffer |-> "writable",
     ret |-> 0, bytes |-> <<>>, pos |-> NoOffset,
     input |-> <<>>, heap |-> <<>>, fault |-> "none"]

NoWrite == [set |-> FALSE, k |-> 0, input |-> <<>>]

NoLevels == [tracked |-> FALSE, net |-> 0]

NoChunks == [open |-> FALSE, got |-> <<>>, next |-> 0]

NoReads == [open |-> FALSE, got |-> <<>>, next |-> 0, held |-> {}, changed |-> FALSE]

NoEdge == [active |-> FALSE, before |-> 0, b |-> FALSE]

HandlerIdle == [pc |-> "idle", cpu |-> 0, b |-> FALSE, before |-> 0]

ReaderIdle ==
    [pc |-> "idle", angle |-> 0, kbuffer |-> <<>>, seen |-> 0, edge |-> NoEdge]

WriterIdle == [pc |-> "idle", value |-> 0, length |-> 0]

\* the module before it is loaded: nothing requested, nothing released
LifeUnloaded ==
    [pc |-> "unloaded", err |-> 0, ret |-> 0, failed |-> "none", rc |-> 0,
     acquired |-> <<>>, released |-> <<>>]

\* rotation_sensor_init has returned 0 with every step done: lines 165-195
LifeRunning ==
    [LifeUnloaded EXCEPT !.pc = "returned",
                         !.acquired = <<"gpio_a", "gpio_b", "irq", "misc">>]

\* the driver in service: rotation_sensor_init has run, lines 161-162 and
\* 165-195, with the module parameter set
Init ==
    /\ count_max \in CountMaxValues
    /\ value = 0
    /\ spinlock = "unlocked"
    /\ handler = HandlerIdle
    /\ reader = ReaderIdle
    /\ writer = WriterIdle
    /\ op = NoOp
    /\ last_write = NoWrite
    /\ levels = [tracked |-> TRUE, net |-> 0]
    /\ chunks = NoChunks
    /\ life = LifeRunning
    /\ reads = NoReads
    /\ stored = {}

(***************************************************************************)
(* Spec: one step per call.  The handler and the store of a write run      *)
(* under the lock, so each is one step.  A read loads the counter without  *)
(* the lock (line 71) and then waits for it: the calls of read in flight   *)
(* while the handler runs, however many, each load one of the values the   *)
(* handler stores on its way and return after it.  They are the reads that *)
(* follow the edge, up to the next store of a write, and Loadable gives    *)
(* each of them those values.  A call that returns after a later edge or   *)
(* write is the read's step followed by theirs.  SpecSMP has the calls     *)
(* statement by statement, for one reader and one writer.                  *)
(***************************************************************************)
\* the sum of the levels after one more level, while it stays within MaxNet
LevelsAfter(b) ==
    LET n == IF b THEN levels.net + 1 ELSE levels.net - 1
    IN  IF levels.tracked /\ Abs(n) <= MaxNet
        THEN [tracked |-> TRUE, net |-> n]
        ELSE NoLevels

\* the chunks after a read at off that loaded seen and returned out.  The
\* reads are followed from one at offset 0 on, while those after it load
\* the counter as it is
ChunksAfter(seen, off, out) ==
    IF out.ret < 0 THEN chunks
    ELSE IF off = NoOffset
    THEN [open |-> TRUE, got |-> out.bytes, next |-> out.pos.lo]
    ELSE IF chunks.open /\ off.hi = 0 /\ off.lo = chunks.next /\ seen = value
    THEN [open |-> TRUE, got |-> chunks.got \o out.bytes, next |-> out.pos.lo]
    ELSE NoChunks

\* gpio_a_handler with channel B at level b: lines 118-135
Edge(b) ==
    /\ value' = HandlerResult(value, b, count_max)
    /\ op' = [NoOp EXCEPT !.kind = "edge", !.b = b, !.before = value]
    /\ last_write' = NoWrite
    /\ levels' = LevelsAfter(b)
    /\ chunks' = NoChunks
    /\ stored' = HandlerStores(value, b, count_max)
    /\ UNCHANGED <<count_max, life, smp_vars>>

\* one rising edge on channel A
gpio_a_handler ==
    \E b \in BOOLEAN :
        /\ Edge(b)
        /\ UNCHANGED reads

\* what line 71 can load.  The load is made before the lock is taken (line
\* 72), so a call that began while the handler ran loads any of the values
\* the handler stored; the call then waits for the lock and returns after
\* the handler.  Any number of calls do so during one run of the handler.
\* Otherwise the call loads the counter as it is
Loadable == {value} \cup stored

\* rotation_sensor_read(buffer, length, offset), lines 64-89: line 71 loads
\* seen, the caller's buffer is of the kind buffer, and a source past
\* kbuffer reads as oob.  op.before is the value loaded
Read(seen, off, length, buffer, oob) ==
    LET angle   == AngleOf(seen, count_max)
        kbuffer == KBufferOf(angle)
        out     == ReadTail(kbuffer, off, length, buffer, oob)
    IN  /\ op' = [NoOp EXCEPT !.kind = IF out.returns THEN "read" ELSE "oops",
                              !.before = seen,
                              !.off = off, !.length = length,
                              !.buffer = buffer, !.ret = out.ret,
                              !.bytes = out.bytes, !.pos = out.pos]
        /\ chunks' = IF out.returns THEN ChunksAfter(seen, off, out) ELSE NoChunks
        /\ UNCHANGED <<count_max, life, value, smp_vars, last_write, levels>>

\* the calls of read: every capacity at every offset within kbuffer and, at
\* the offsets from 2^32 on, the capacities 0 and KBUFFER_SIZE, with a
\* buffer the caller can write; with the other buffers the whole text asked
\* for, at offset 0 and at offset 2^32
ReadCalls ==
    [off : {o \in Offsets : o.hi = 0}, length : Lengths, buffer : {"writable"}]
        \cup [off : {o \in Offsets : o.hi # 0}, length : {0, KBUFFER_SIZE},
              buffer : {"writable"}]
        \cup [off : {NoOffset, [hi |-> 1, lo |-> 0]}, length : {KBUFFER_SIZE},
              buffer : Buffers \ {"writable"}]

\* one call of read.  What lies past kbuffer is chosen for the calls that
\* load from there
rotation_sensor_read ==
    \E seen \in Loadable, call \in ReadCalls :
      \E oob \in IF call.off.hi = 0 \/ call.length = 0 \/ call.buffer = "refused"
                 THEN {"wraps"} ELSE OutOfBuffer :
        /\ Read(seen, call.off, call.length, call.buffer, oob)
        /\ UNCHANGED <<reads, stored>>

\* rotation_sensor_write(buffer, length), lines 92-115: the bytes input,
\* followed in the heap by the bytes heap, with the failure fault
Write(input, heap, fault) ==
    LET out == WriteOutcome(input, heap, fault)
    IN  /\ value' = IF out.assign THEN out.value ELSE value
        /\ op' = [NoOp EXCEPT !.kind = IF out.returns THEN "write" ELSE "write_oops",
                              !.before = value,
                              !.input = input, !.heap = heap,
                              !.fault = fault, !.ret = out.ret]
        /\ last_write' = IF out.assign
                         THEN [set |-> TRUE, k |-> out.value, input |-> input]
                         ELSE last_write
        /\ levels' = IF out.assign THEN NoLevels ELSE levels
        /\ chunks' = IF out.assign THEN NoChunks ELSE chunks
        /\ stored' = IF out.assign THEN {} ELSE stored
        /\ UNCHANGED <<count_max, life, smp_vars>>

\* one call of write
rotation_sensor_write ==
    \E call \in WriteCalls :
        /\ Write(call.input, call.heap, call.fault)
        /\ UNCHANGED reads

Next ==
    \/ gpio_a_handler
    \/ rotation_sensor_read
    \/ rotation_sensor_write

Spec == Init /\ [][Next]_vars

(***************************************************************************)
(* SpecTorn: a caller reads the text in chunks, each read starting at the  *)
(* offset the one before left, while edges arrive and writes are made in   *)
(* between.  reads.got is what the chunks make together and reads.held the *)
(* values the counter held from the first chunk on, MaxHeld of them at     *)
(* most; reads.changed says that an edge or a write came after the first   *)
(* chunk.  The calls are those of Spec that return without an error.       *)
(***************************************************************************)
\* reads after a call of read at off that loaded seen returned ret bytes,
\* bytes
ReadsAfterRead(seen, off, ret, bytes) ==
    IF off = NoOffset /\ ret > 0
    THEN [open |-> TRUE, got |-> bytes, next |-> ret, held |-> {seen, value},
          changed |-> FALSE]
    ELSE IF reads.open /\ off.hi = 0 /\ off.lo = reads.next /\ ret >= 0
    THEN [reads EXCEPT !.got = @ \o bytes, !.next = @ + ret]
    ELSE NoReads

\* reads after the counter has held the values vs
ReadsAfterChange(vs) ==
    IF reads.open /\ Cardinality(reads.held \cup vs) <= MaxHeld
    THEN [reads EXCEPT !.held = @ \cup vs, !.changed = TRUE]
    ELSE NoReads

\* a read of 1..MaxLength bytes into a writable buffer, at offset 0 or at
\* the offset the read before left (line 86).  The caller's reads follow
\* one another: the first after an edge can have begun during the handler's
\* run, the later ones load the counter as it is
read_chunk ==
    \E seen \in Loadable, off \in {NoOffset, [hi |-> 0, lo |-> reads.next]},
       length \in 1 .. MaxLength :
        /\ Read(seen, off, length, "writable", "wraps")
        /\ reads' = ReadsAfterRead(seen, off, op'.ret, op'.bytes)
        /\ stored' = {}

\* an edge between two reads
edge_between ==
    \E b \in BOOLEAN :
        /\ Edge(b)
        /\ reads' = ReadsAfterChange(HandlerStores(value, b, count_max))

\* a write between two reads, of bytes that hold an integer and are
\* followed by a NUL
write_between ==
    \E input \in WriteInputs :
        /\ WriteOutcome(input, <<>>, "none").assign
        /\ Write(input, <<>>, "none")
        /\ reads' = ReadsAfterChange({value'})

\* the driver in service, the levels of channel B not summed
InitTorn ==
    /\ count_max \in CountMaxValues
    /\ value = 0
    /\ spinlock = "unlocked"
    /\ handler = HandlerIdle
    /\ reader = ReaderIdle
    /\ writer = WriterIdle
    /\ op = NoOp
    /\ last_write = NoWrite
    /\ levels = NoLevels
    /\ chunks = NoChunks
    /\ life = LifeRunning
    /\ reads = NoReads
    /\ stored = {}

NextTorn ==
    \/ read_chunk
    \/ edge_between
    \/ write_between

SpecTorn == InitTorn /\ [][NextTorn]_vars

(***************************************************************************)
(* SpecSMP: the three functions statement by statement.  The reader runs   *)
(* on processor 0 and the writer on processor 1; the handler interrupts    *)
(* either processor while its interrupts are enabled and runs there to     *)
(* its end, the interrupted task waiting.  A position (pc) names the       *)
(* statement the context executes next.                                    *)
(***************************************************************************)
Cpus == {0, 1}

ReaderCpu == 0

WriterCpu == 1

\* spin_lock and spin_unlock in the place of spin_lock_irqsave and
\* spin_unlock_irqrestore: the interrupts stay enabled
IrqsOffNever(cpu) == FALSE

\* between spin_lock_irqsave and spin_unlock_irqrestore a task runs with
\* the interrupts of its processor disabled
IrqsOff(cpu) ==
    \/ cpu = ReaderCpu /\ reader.pc \in {"spin_lock", "snprintf", "spin_unlock"}
    \/ cpu = WriterCpu /\ writer.pc \in {"spin_lock", "assign", "spin_unlock"}

\* a task runs unless the handler has interrupted its processor
Running(cpu) == ~(handler.pc # "idle" /\ handler.cpu = cpu)

\* the handler is between its spin_lock and its spin_unlock
InHandlerSection == handler.pc \in {"count", "while_above", "while_below", "spin_unlock"}

\* a rising edge on channel A interrupts a processor: gpio_a_handler is entered
irq_enter ==
    \E cpu \in Cpus :
        /\ handler.pc = "idle"
        /\ ~IrqsOff(cpu)
        /\ handler' = [handler EXCEPT !.pc = "spin_lock", !.cpu = cpu]
        /\ UNCHANGED <<count_max, life, value, spinlock, reader, writer, seq_vars>>

\* line 122: spin_lock(&sensor->spinlock)
h_spin_lock ==
    /\ handler.pc = "spin_lock"
    /\ spinlock = "unlocked"
    /\ spinlock' = "irq"
    /\ handler' = [handler EXCEPT !.pc = "count"]
    /\ UNCHANGED <<count_max, life, value, reader, writer, seq_vars>>

\* lines 123-126: sample channel B, then value++ or value--
h_count ==
    \E b \in BOOLEAN :
        /\ handler.pc = "count"
        /\ value' = Count(value, b)
        /\ handler' = [handler EXCEPT !.pc = "while_above", !.b = b,
                                      !.before = value]
        /\ UNCHANGED <<count_max, life, spinlock, reader, writer, seq_vars>>

\* lines 127-128: while (value > count_max) value -= count_max
h_while_above ==
    /\ handler.pc = "while_above"
    /\ IF value > count_max
       THEN /\ value' = value - count_max
            /\ UNCHANGED handler
       ELSE /\ handler' = [handler EXCEPT !.pc = "while_below"]
            /\ UNCHANGED value
    /\ UNCHANGED <<count_max, life, spinlock, reader, writer, seq_vars>>

\* the loop of lines 129-130 with a body that adds nothing: it never ends on
\* a negative value
h_while_below_stuck ==
    /\ handler.pc = "while_below"
    /\ IF value < 0
       THEN UNCHANGED <<value, handler>>
       ELSE /\ handler' = [handler EXCEPT !.pc = "spin_unlock"]
            /\ UNCHANGED value
    /\ UNCHANGED <<count_max, life, spinlock, reader, writer, seq_vars>>

\* lines 129-130: while (value < 0) value += count_max
h_while_below ==
    /\ handler.pc = "while_below"
    /\ IF value < 0
       THEN /\ value' = value + count_max
            /\ UNCHANGED handler
       ELSE /\ handler' = [handler EXCEPT !.pc = "spin_unlock"]
            /\ UNCHANGED value
    /\ UNCHANGED <<count_max, life, spinlock, reader, writer, seq_vars>>

\* lines 132-134: spin_unlock and return IRQ_HANDLED
h_spin_unlock ==
    /\ handler.pc = "spin_unlock"
    /\ spinlock' = "unlocked"
    /\ handler' = HandlerIdle
    /\ UNCHANGED <<count_max, life, value, reader, writer, seq_vars>>

\* the handler execution, if any, that holds the lock now: the value it
\* found and the level it sampled
EdgeInProgress ==
    IF handler.pc \in {"while_above", "while_below", "spin_unlock"}
    THEN [active |-> TRUE, before |-> handler.before, b |-> handler.b]
    ELSE NoEdge

\* line 71: angle = (g_rotation_sensor.value * 3600) / count_max
r_angle ==
    /\ reader.pc = "idle"
    /\ Running(ReaderCpu)
    /\ reader' = [reader EXCEPT !.pc = "irqsave",
                                 !.angle = AngleOf(value, count_max),
                                 !.seen = value, !.edge = EdgeInProgress]
    /\ UNCHANGED <<count_max, life, value, spinlock, handler, writer, seq_vars>>

\* line 72, first half: spin_lock_irqsave disables the local interrupts
r_irqsave ==
    /\ reader.pc = "irqsave"
    /\ Running(ReaderCpu)
    /\ reader' = [reader EXCEPT !.pc = "spin_lock"]
    /\ UNCHANGED <<count_max, life, value, spinlock, handler, writer, seq_vars>>

\* line 72, second half: the lock is taken once it is free
r_spin_lock ==
    /\ reader.pc = "spin_lock"
    /\ Running(ReaderCpu)
    /\ spinlock = "unlocked"
    /\ spinlock' = "reader"
    /\ reader' = [reader EXCEPT !.pc = "snprintf"]
    /\ UNCHANGED <<count_max, life, value, handler, writer, seq_vars>>

\* line 73: snprintf(kbuffer, 64, "%ld.%ld\n", angle/10, angle%10)
r_snprintf ==
    /\ reader.pc = "snprintf"
    /\ Running(ReaderCpu)
    /\ reader' = [reader EXCEPT !.pc = "spin_unlock",
                                 !.kbuffer = KBufferOf(reader.angle)]
    /\ UNCHANGED <<count_max, life, value, spinlock, handler, writer, seq_vars>>

\* line 74: spin_unlock_irqrestore
r_spin_unlock ==
    /\ reader.pc = "spin_unlock"
    /\ Running(ReaderCpu)
    /\ spinlock' = "unlocked"
    /\ reader' = [reader EXCEPT !.pc = "copy"]
    /\ UNCHANGED <<count_max, life, value, handler, writer, seq_vars>>

\* lines 76-88: bytes of kbuffer go to the caller and the call returns.
\* These lines work on the locals and on the caller's buffer and offset
\* alone (ReadTail, in Spec); nothing of the call stays in the driver
r_copy ==
    /\ reader.pc = "copy"
    /\ Running(ReaderCpu)
    /\ reader' = ReaderIdle
    /\ UNCHANGED <<count_max, life, value, spinlock, handler, writer, seq_vars>>

\* lines 98-109: the bytes are copied in and parsed; on a failure the call
\* returns here, and a call of length 0 ends here in an oops
w_sscanf ==
    \E call \in WriteCalls :
        LET out == WriteOutcome(call.input, call.heap, call.fault)
        IN  /\ writer.pc = "idle"
            /\ Running(WriterCpu)
            /\ writer' = IF out.assign
                         THEN [pc |-> "irqsave", value |-> out.value,
                               length |-> out.ret]
                         ELSE WriterIdle
            /\ UNCHANGED <<count_max, life, value, spinlock, handler, reader, seq_vars>>

\* line 111, first half: spin_lock_irqsave disables the local interrupts
w_irqsave ==
    /\ writer.pc = "irqsave"
    /\ Running(WriterCpu)
    /\ writer' = [writer EXCEPT !.pc = "spin_lock"]
    /\ UNCHANGED <<count_max, life, value, spinlock, handler, reader, seq_vars>>

\* line 111, second half: the lock is taken once it is free
w_spin_lock ==
    /\ writer.pc = "spin_lock"
    /\ Running(WriterCpu)
    /\ spinlock = "unlocked"
    /\ spinlock' = "writer"
    /\ writer' = [writer EXCEPT !.pc = "assign"]
    /\ UNCHANGED <<count_max, life, value, handler, reader, seq_vars>>

\* line 112: g_rotation_sensor.value = value
w_assign ==
    /\ writer.pc = "assign"
    /\ Running(WriterCpu)
    /\ value' = writer.value
    /\ writer' = [writer EXCEPT !.pc = "spin_unlock"]
    /\ UNCHANGED <<count_max, life, spinlock, handler, reader, seq_vars>>

\* lines 113-114: spin_unlock_irqrestore and return length
w_spin_unlock ==
    /\ writer.pc = "spin_unlock"
    /\ Running(WriterCpu)
    /\ spinlock' = "unlocked"
    /\ writer' = WriterIdle
    /\ UNCHANGED <<count_max, life, value, handler, reader, seq_vars>>

NextSMP ==
    \/ irq_enter
    \/ h_spin_lock
    \/ h_count
    \/ h_while_above
    \/ h_while_below
    \/ h_spin_unlock
    \/ r_angle
    \/ r_irqsave
    \/ r_spin_lock
    \/ r_snprintf
    \/ r_spin_unlock
    \/ r_copy
    \/ w_sscanf
    \/ w_irqsave
    \/ w_spin_lock
    \/ w_assign
    \/ w_spin_unlock

SpecSMP == Init /\ [][NextSMP]_vars

\* a context that holds the lock, or runs with nothing to wait for, goes on
\* executing: each processor executes the statement it is at
Executes ==
    /\ WF_vars(h_count) /\ WF_vars(h_while_above) /\ WF_vars(h_while_below)
    /\ WF_vars(h_spin_unlock)
    /\ WF_vars(r_snprintf) /\ WF_vars(r_spin_unlock)
    /\ WF_vars(w_assign) /\ WF_vars(w_spin_unlock)

\* spin_lock, lines 72, 111 and 122: the kernel's spinlocks serve their
\* waiters in turn, so a context that spins on a lock that is released
\* again and again obtains it
LockIsFair ==
    /\ SF_vars(h_spin_lock)
    /\ SF_vars(r_spin_lock)
    /\ SF_vars(w_spin_lock)

SpecSMPFair == Init /\ [][NextSMP]_vars /\ Executes /\ LockIsFair

(***************************************************************************)
(* SpecLife: the module is loaded by rotation_sensor_init and unloaded by  *)
(* rotation_sensor_exit, statement by statement.  Each kernel call of the  *)
(* initialisation returns 0 or an error; life.acquired lists what the      *)
(* calls obtained and life.released what was given back, both in order.    *)
(* From request_irq's success to free_irq a rising edge calls the handler. *)
(***************************************************************************)
\* what gpio_request, gpio_direction_input, request_irq and misc_register
\* may return: 0, or a negative errno
StepResults == {0, -ENOMEM, -EINVAL}

\* the release orders other than the one of lines 201-205
ExitOrderLinesFirst == <<"misc", "gpio_b", "gpio_a", "irq">>

\* rotation_sensor_exit, lines 201-205: misc_deregister, free_irq,
\* gpio_free(gpio_b), gpio_free(gpio_a)
ExitOrder == <<"misc", "irq", "gpio_b", "gpio_a">>

\* a call that obtains resource r has returned 0
Acquire(l, r) == [l EXCEPT !.acquired = Append(@, r)]

\* gpio_free, free_irq or misc_deregister of resource r
Release(l, r) == [l EXCEPT !.released = Append(@, r)]

\* return e from rotation_sensor_init
Return(l, e) == [l EXCEPT !.pc = "returned", !.ret = e]

\* a call of step has returned the error e
Fail(l, step, e) == [l EXCEPT !.failed = step, !.rc = e]

\* the resources obtained and not given back
Held ==
    {life.acquired[i] : i \in 1..Len(life.acquired)}
        \ {life.released[i] : i \in 1..Len(life.released)}

\* the module's code and data are in memory: it is being loaded, is loaded
\* or is being unloaded
ModulePresent ==
    \/ life.pc \notin {"unloaded", "returned", "exited"}
    \/ life.pc = "returned" /\ life.ret = 0

\* lines 161-162: spin_lock_init and value = 0
init_sensor ==
    /\ life.pc = "unloaded"
    /\ value' = 0
    /\ spinlock' = "unlocked"
    /\ life' = [life EXCEPT !.pc = "gpio_request_a"]
    /\ UNCHANGED <<count_max, handler, reader, writer, seq_vars>>

\* lines 165-167: err = gpio_request(gpio_a); if (err) return err
init_gpio_request_a ==
    \E e \in StepResults :
        /\ life.pc = "gpio_request_a"
        /\ life' = IF e # 0
                   THEN Return(Fail([life EXCEPT !.err = e], "gpio_request_a", e), e)
                   ELSE [Acquire(life, "gpio_a") EXCEPT !.err = e,
                                                        !.pc = "gpio_request_b"]
        /\ UNCHANGED <<count_max, value, smp_vars, seq_vars>>

\* lines 169-173: err = gpio_request(gpio_b); if (err) { gpio_free(gpio_a);
\* return err; }
init_gpio_request_b ==
    \E e \in StepResults :
        /\ life.pc = "gpio_request_b"
        /\ life' = IF e # 0
                   THEN Return(Release(Fail([life EXCEPT !.err = e],
                                            "gpio_request_b", e),
                                       "gpio_a"), e)
                   ELSE [Acquire(life, "gpio_b") EXCEPT !.err = e,
                                                        !.pc = "direction_input"]
        /\ UNCHANGED <<count_max, value, smp_vars, seq_vars>>

\* lines 175-181: if (gpio_direction_input(gpio_a) != 0 ||
\* gpio_direction_input(gpio_b) != 0) { gpio_free(gpio_b); gpio_free(gpio_a);
\* return err; }.  The results of the two calls are not kept: err is what
\* line 169 left
init_direction_input ==
    \E ea \in StepResults :
      \E eb \in IF ea # 0 THEN {0} ELSE StepResults :
        /\ life.pc = "direction_input"
        /\ life' = IF ea # 0 \/ eb # 0
                   THEN Return(Release(Release(
                                   Fail(life, "gpio_direction_input",
                                        IF ea # 0 THEN ea ELSE eb),
                                   "gpio_b"), "gpio_a"), life.err)
                   ELSE [life EXCEPT !.pc = "request_irq"]
        /\ UNCHANGED <<count_max, value, smp_vars, seq_vars>>

\* lines 184-191: err = request_irq(...); if (err) { gpio_free(gpio_b);
\* gpio_free(gpio_a); return err; }
init_request_irq ==
    \E e \in StepResults :
        /\ life.pc = "request_irq"
        /\ life' = IF e # 0
                   THEN Return(Release(Release(
                                   Fail([life EXCEPT !.err = e], "request_irq", e),
                                   "gpio_b"), "gpio_a"), e)
                   ELSE [Acquire(life, "irq") EXCEPT !.err = e,
                                                     !.pc = "misc_register"]
        /\ UNCHANGED <<count_max, value, smp_vars, seq_vars>>

\* lines 194-195: err = misc_register(&rotation_sensor_driver); return err
init_misc_register ==
    \E e \in StepResults :
        /\ life.pc = "misc_register"
        /\ life' = IF e # 0
                   THEN Return(Fail([life EXCEPT !.err = e], "misc_register", e), e)
                   ELSE Return([Acquire(life, "misc") EXCEPT !.err = e], e)
        /\ UNCHANGED <<count_max, value, smp_vars, seq_vars>>

\* line 201: misc_deregister.  The kernel calls rotation_sensor_exit when a
\* module whose initialisation returned 0 is removed
exit_misc_deregister ==
    /\ life.pc = "returned"
    /\ life.ret = 0
    /\ life' = [Release(life, ExitOrder[1]) EXCEPT !.pc = "exit_2"]
    /\ UNCHANGED <<count_max, value, smp_vars, seq_vars>>

\* line 202: free_irq
exit_free_irq ==
    /\ life.pc = "exit_2"
    /\ life' = [Release(life, ExitOrder[2]) EXCEPT !.pc = "exit_3"]
    /\ UNCHANGED <<count_max, value, smp_vars, seq_vars>>

\* line 204: gpio_free(gpio_b)
exit_gpio_free_b ==
    /\ life.pc = "exit_3"
    /\ life' = [Release(life, ExitOrder[3]) EXCEPT !.pc = "exit_4"]
    /\ UNCHANGED <<count_max, value, smp_vars, seq_vars>>

\* line 205: gpio_free(gpio_a)
exit_gpio_free_a ==
    /\ life.pc = "exit_4"
    /\ life' = [Release(life, ExitOrder[4]) EXCEPT !.pc = "exited"]
    /\ UNCHANGED <<count_max, value, smp_vars, seq_vars>>

\* a rising edge on channel A while the handler is installed (lines 184-186
\* to line 202): the kernel calls the address it was given.  With the module
\* in memory gpio_a_handler runs.  After rotation_sensor_init has returned
\* misc_register's error (line 195) the handler is still installed and the
\* kernel has freed the module: the call goes to freed memory, where
\* gpio_a_handler runs on the freed counter if the memory is as it was, or
\* the call faults and the kernel stops in an oops
irq_edge ==
    /\ "irq" \in Held
    /\ life.pc # "oops"
    /\ \/ gpio_a_handler
       \/ /\ ~ModulePresent
          /\ life' = [life EXCEPT !.pc = "oops"]
          /\ UNCHANGED <<count_max, value, smp_vars, seq_vars>>

\* before insmod: the parameter is set, nothing is held
InitLife ==
    /\ count_max \in CountMaxValues
    /\ value = 0
    /\ spinlock = "unlocked"
    /\ handler = HandlerIdle
    /\ reader = ReaderIdle
    /\ writer = WriterIdle
    /\ op = NoOp
    /\ last_write = NoWrite
    /\ levels = [tracked |-> TRUE, net |-> 0]
    /\ chunks = NoChunks
    /\ life = LifeUnloaded
    /\ reads = NoReads
    /\ stored = {}

NextLife ==
    \/ init_sensor
    \/ init_gpio_request_a
    \/ init_gpio_request_b
    \/ init_direction_input
    \/ init_request_irq
    \/ init_misc_register
    \/ exit_misc_deregister
    \/ exit_free_irq
    \/ exit_gpio_free_b
    \/ exit_gpio_free_a
    \/ irq_edge

SpecLife == InitLife /\ [][NextLife]_vars

(***************************************************************************)
(* What the specification of the driver says, stated apart from the        *)
(* definitions above that model the code.                                  *)
(***************************************************************************)
\* quotient and remainder truncating toward zero, for a positive divisor
TruncQuot(n, d) == IF n >= 0 THEN n \div d ELSE -((-n) \div d)

TruncRem(n, d) == n - d * TruncQuot(n, d)

RECURSIVE Numeral(_)
Numeral(n) ==
    IF n < 10 THEN <<DigitChars[n + 1]>>
    ELSE Numeral(n \div 10) \o <<DigitChars[(n % 10) + 1]>>

SignedNumeral(x) == IF x < 0 THEN <<"-">> \o Numeral(-x) ELSE Numeral(x)

\* "<a/10>.<a%10>\n" for a = (k * 3600) / modulus
AngleText(k, modulus) ==
    LET a == TruncQuot(k * 3600, modulus)
    IN  SignedNumeral(TruncQuot(a, 10)) \o <<".">>
            \o SignedNumeral(TruncRem(a, 10)) \o <<"\n">>

Min(a, b) == IF a < b THEN a ELSE b

Max(a, b) == IF a > b THEN a ELSE b

\* the offset hi * 2^32 + lo is at or past position n (n < 2^32)
AtOrPast(off, n) == off.hi > 0 \/ off.lo >= n

\* a read that returned without a fault, at offset 0, with room for the text
FullRead(text) ==
    /\ op.kind = "read"
    /\ op.ret >= 0
    /\ op.off = NoOffset
    /\ op.length >= Len(text)

\* C1: after every update by the edge handler, whatever the value before it
\* and whatever the level of channel B, 0 <= value < count_max.
C1_HandlerLeavesValueBelowModulus ==
    op.kind = "edge" => (0 <= value /\ value < count_max)

\* C2: from value 0 and with no write, after any sequence of edges the value
\* is (number of high levels - number of low levels) mod count_max, a value
\* of 0 .. count_max - 1.
C2_ValueIsNetLevelsModModulus ==
    levels.tracked =>
        /\ value = levels.net % count_max
        /\ value \in 0 .. count_max - 1

\* the integer that the bytes the caller wrote, and they alone, parse to
InputInteger(input) == sscanf_ld(input)

\* C3: a successful write of bytes that parse to the integer k, followed by
\* a full read from offset 0 with no edge in between, returns the text of
\* (k * 3600) / count_max, quotient and remainder truncated toward zero, k
\* not normalized.
C3_WriteThenReadRoundTrip ==
    LET w == InputInteger(last_write.input)
    IN  (last_write.set /\ w.n = 1 /\ FullRead(AngleText(w.value, count_max)))
            => op.bytes = AngleText(w.value, count_max)

\* the counter after n edges with channel B high
RECURSIVE AfterHighEdges(_, _, _)
AfterHighEdges(v, n, cm) ==
    IF n = 0 THEN v ELSE AfterHighEdges(HandlerResult(v, TRUE, cm), n - 1, cm)

\* what a full read returns for a counter value
FullReadBytes(v, cm) ==
    ReadTail(KBufferOf(AngleOf(v, cm)), NoOffset, KBUFFER_SIZE, "writable", "wraps").bytes

\* C4: a read at offset 0 with room for the text returns exactly the text of
\* (value * 3600) / count_max for the value at that call; with modulus 5000,
\* ten high edges from 0 read as "0.7\n" and the value 2500 as "180.0\n".
C4_FullReadReturnsAngleText ==
    /\ FullRead(AngleText(op.before, count_max))
           => (op.bytes = AngleText(op.before, count_max)
                  /\ op.ret = Len(op.bytes))
    /\ FullReadBytes(AfterHighEdges(0, 10, DEFAULT_COUNT_MAX), DEFAULT_COUNT_MAX)
           = <<"0", ".", "7", "\n">>
    /\ FullReadBytes(2500, DEFAULT_COUNT_MAX) = <<"1", "8", "0", ".", "0", "\n">>

\* three edges up from 0 under modulus 7, read in full: 10800 / 7 = 1542
C4_Witness ==
    /\ count_max = 7
    /\ op.before = 3 /\ ~last_write.set
    /\ FullRead(AngleText(3, 7))
    /\ op.bytes = <<"1", "5", "4", ".", "2", "\n">>

\* C5: with no edge and no write in between, reads that each start at the
\* offset the one before left return min(capacity, remaining) bytes and
\* advance the offset by that count, and the chunks put together are the
\* bytes of one full read from offset 0.
C5_ChunksMakeTheFullText ==
    LET text == AngleText(value, count_max)
    IN  /\ chunks.open =>
              /\ chunks.next <= Len(text)
              /\ chunks.got = SubSeq(text, 1, chunks.next)
        /\ (op.kind = "read" /\ op.ret >= 0 /\ op.off.hi = 0) =>
              /\ op.ret = Min(op.length, Max(0, Len(text) - op.off.lo))
              /\ Len(op.bytes) = op.ret
              /\ op.pos = [hi |-> 0, lo |-> op.off.lo + op.ret]

\* C6: a read whose offset is at or past the end of the text returns 0, with
\* no fault, copies nothing and leaves the caller's offset as it was.
C6_ReadPastEndReturnsNothing ==
    (op.kind = "read" /\ AtOrPast(op.off, Len(AngleText(op.before, count_max))))
        => (op.ret = 0 /\ op.bytes = <<>> /\ op.pos = op.off)

\* C7: two reads with the same offset and capacity, with no write and no
\* edge between them, return the same bytes, and a read leaves the counter
\* as it was.
C7_ReadIsIdempotent ==
    [][ /\ (op.kind = "read" /\ op'.kind = "read"
               /\ op'.off = op.off /\ op'.length = op.length
               /\ op.ret >= 0 /\ op'.ret >= 0)
           => op'.bytes = op.bytes
        /\ op'.kind = "read" => value' = value ]_vars

\* the bytes hold no integer: after white space comes neither a digit nor
\* a '-' and a digit
NoInteger(text) ==
    \A i \in 1 .. Len(text) :
        (\A j \in 1 .. i - 1 : IsSpace(text[j])) =>
            \/ IsSpace(text[i])
            \/ /\ ~IsDigit(text[i])
               /\ ~(text[i] = "-" /\ i < Len(text) /\ IsDigit(text[i + 1]))

\* C8: a write that fails leaves the counter as it was: a failed allocation
\* returns -ENOMEM, a failed copy from the caller -EFAULT, a write of bytes
\* that hold no integer -EINVAL, and in none of these cases is the counter
\* assigned.
C8_FailedWriteLeavesValue ==
    op.kind \in {"write", "write_oops"} =>
        /\ op.fault = "kmalloc" => (op.kind = "write" /\ op.ret = -ENOMEM)
        /\ op.fault = "copy_from_user" => (op.kind = "write" /\ op.ret = -EFAULT)
        /\ (op.fault = "none" /\ NoInteger(op.input))
               => (op.kind = "write" /\ op.ret = -EINVAL /\ value = op.before)
        /\ op.ret < 0 =>
               /\ op.ret \in {-ENOMEM, -EFAULT, -EINVAL}
               /\ value = op.before

\* C9: every access to the counter, the reader's load as well as the
\* writer's store and the handler's updates, is made by a context that
\* holds the spinlock, so none is made while another context is inside its
\* critical section.
C9_ValueAccessedUnderLock ==
    [][ /\ r_angle => spinlock = "reader"
        /\ w_assign => spinlock = "writer"
        /\ (h_count \/ h_while_above \/ h_while_below) => spinlock = "irq"
      ]_vars

\* C10: the value the reader computes the angle from is never one the
\* handler had yet to normalize: it is the value before the edge or the
\* value the handler leaves.
C10_ReaderSeesNoIntermediateValue ==
    (reader.pc # "idle" /\ reader.edge.active) =>
        \/ reader.seen = reader.edge.before
        \/ reader.seen = HandlerResult(reader.edge.before, reader.edge.b, count_max)

\* the sequence s backwards
Reverse(s) == [i \in 1..Len(s) |-> s[Len(s) + 1 - i]]

\* C11: when a step of rotation_sensor_init has failed and the function has
\* returned, everything the earlier steps obtained has been given back, in
\* the reverse of the order it was obtained, and nothing is held.
C11_FailedInitHoldsNothing ==
    (life.pc = "returned" /\ life.failed # "none") =>
        /\ life.released = Reverse(life.acquired)
        /\ Held = {}

\* C12: rotation_sensor_init returns the non-zero error of the first step
\* that failed, and returns 0 only when both lines are acquired and are
\* inputs, the handler is installed and the endpoint is registered.
C12_InitReturnsFirstError ==
    life.pc = "returned" =>
        /\ life.failed # "none" => (life.ret = life.rc /\ life.ret # 0)
        /\ life.ret = 0 =>
               /\ life.failed = "none"
               /\ life.acquired = <<"gpio_a", "gpio_b", "irq", "misc">>

\* the module is in service: all four resources obtained, none given back
Running4 == life.acquired = <<"gpio_a", "gpio_b", "irq", "misc">>

\* C13: unloading a module in service gives the resources back in the order
\* endpoint, edge handler, line B, line A: at every point of
\* rotation_sensor_exit what has been given back is the beginning of that
\* list, and when it has returned the list is complete and nothing is held.
C13_ExitReleasesInOrder ==
    Running4 =>
        /\ Len(life.released) <= 4
        /\ life.released =
               SubSeq(<<"misc", "irq", "gpio_b", "gpio_a">>, 1, Len(life.released))
        /\ life.pc = "exited" => (Len(life.released) = 4 /\ Held = {})
        /\ life.pc = "exit_2" => Len(life.released) = 1
        /\ life.pc = "exit_3" => Len(life.released) = 2
        /\ life.pc = "exit_4" => Len(life.released) = 3

\* rotation_sensor_exit has returned, after edges were counted in service
C13_Witness ==
    /\ Running4
    /\ life.pc = "exited"
    /\ life.released = <<"misc", "irq", "gpio_b", "gpio_a">>
    /\ Held = {}
    /\ value # 0

\* the handler runs on a processor whose task holds the lock
HandlerOverLockHolder ==
    /\ handler.pc # "idle"
    /\ \/ handler.cpu = ReaderCpu /\ spinlock = "reader"
       \/ handler.cpu = WriterCpu /\ spinlock = "writer"

\* C14: the handler never runs on a processor whose reader or writer holds
\* the lock, and every context that waits for the lock, the handler, the
\* reader or the writer, obtains it.
C14_LockAlwaysGranted ==
    /\ [](~HandlerOverLockHolder)
    /\ (handler.pc = "spin_lock") ~> (spinlock = "irq")
    /\ (reader.pc = "spin_lock") ~> (spinlock = "reader")
    /\ (writer.pc = "spin_lock") ~> (spinlock = "writer")

\* the handler waits for the lock on the reader's processor while the
\* writer, on the other processor, holds it and the reader is about to ask
C14_Witness ==
    /\ handler.pc = "spin_lock" /\ handler.cpu = ReaderCpu
    /\ spinlock = "writer"
    /\ reader.pc = "irqsave"

\* C15: a write that succeeds on bytes that parse to the integer k returns
\* the number of bytes written and stores exactly k, in range or not, and
\* the counter is k in every state up to the next edge or write.
C15_WriteStoresParsedInteger ==
    /\ (op.kind = "write" /\ op.ret >= 0 /\ InputInteger(op.input).n = 1) =>
           /\ op.ret = Len(op.input)
           /\ last_write.set
           /\ last_write.k = InputInteger(op.input).value
    /\ last_write.set => value = last_write.k

\* C16: whatever the counter holds when an edge arrives, a value in range
\* or one far out of range that a write left, the handler that has taken
\* the lock ends its two loops, releases the lock and returns.
C16_HandlerTerminates ==
    (handler.pc # "idle") ~> (handler.pc = "idle" /\ spinlock # "irq")

\* the handler loops on a value that a write left five moduli above range
C16_Witness ==
    /\ count_max = 2
    /\ handler.pc = "while_above"
    /\ handler.before = 11 /\ handler.b
    /\ value = 4
    /\ spinlock = "irq"

\* C17: an edge that finds the counter within 0 .. count_max - 1 is followed
\* by at most one subtraction or addition of count_max: a pass of either
\* loop that changes the counter starts from the value just counted.
C17_AtMostOneNormalization ==
    [][ ( /\ h_while_above \/ h_while_below
          /\ value' # value
          /\ handler.before \in 0 .. count_max - 1 )
        => value = (IF handler.b THEN handler.before + 1 ELSE handler.before - 1)
      ]_vars

\* the one addition made: the counter was 0, channel B low
C17_Witness ==
    /\ handler.pc = "while_below"
    /\ handler.before = 0 /\ ~handler.b
    /\ value = count_max - 1

\* C19: when the handler has returned the counter is within
\* 0 .. count_max, count_max included.
C19_HandlerLeavesValueUpToModulus ==
    op.kind = "edge" => (0 <= value /\ value <= count_max)

\* the upper bound is met, and an edge brings a far value into the range
C19_Witness ==
    /\ op.kind = "edge"
    /\ \/ value = count_max /\ op.before = count_max - 1 /\ op.b
       \/ op.before > 2 * count_max

\* C20: the counter after an edge is congruent, modulo count_max, to the
\* counter before it plus one when channel B was high, minus one when low.
C20_HandlerStepsByOne ==
    op.kind = "edge" =>
        (value - (IF op.b THEN op.before + 1 ELSE op.before - 1)) % count_max = 0

\* an edge on a counter out of range, under a modulus other than 2
C20_Witness ==
    /\ op.kind = "edge"
    /\ count_max = 7
    /\ op.before = 11 /\ op.b
    /\ value = 5

\* the bytes of text from position off on, n of them at most
Slice(text, off, n) == SubSeq(text, off + 1, Min(Len(text), off + n))

\* C18: every call of read formats the value it loads from the counter at
\* that call: the bytes it returns are the bytes, from its offset on, of the
\* text of that value, whatever the calls before returned.  So chunks read
\* around an edge or a write can make a text that no value of the counter
\* has (C18_Witness).
C18_EachReadFormatsCurrentValue ==
    /\ (op.kind = "read" /\ op.ret >= 0 /\ op.off.hi = 0) =>
           /\ op.bytes = Slice(AngleText(op.before, count_max), op.off.lo, op.length)
    /\ reads.open =>
           /\ value \in reads.held
           /\ Len(reads.got) = reads.next
           /\ \E v \in reads.held :
                  SubSeq(reads.got, 1, 1) = SubSeq(AngleText(v, count_max), 1, 1)

\* chunks read to the end of the text, a change of the counter between two
\* of them, that make the text of neither value
C18_Witness ==
    /\ reads.open /\ reads.changed
    /\ Cardinality(reads.held) = 2
    /\ op.kind = "read" /\ op.off.lo > 0 /\ op.ret > 0
    /\ reads.got[Len(reads.got)] = "\n"
    /\ \A v \in reads.held : reads.got # AngleText(v, count_max)

====
